---- MODULE Spec2Model ----
(***************************************************************************)
(* Model of the neovide frame renderer (src/renderer/mod.rs): the window   *)
(* surface cache, position smoothing, the two-pass cell draw pipeline and  *)
(* the frame orchestration of Renderer::draw.                              *)
(*                                                                         *)
(* f32 values are modelled as exact rationals <<n, d>> (d > 0, lowest      *)
(* terms); `as i32` is truncation; Option<T> is <<>> (None) or <<x>>       *)
(* (Some(x)); a HashMap is a set of [key, value] pairs that is only        *)
(* touched through HashMapRemove / HashMapInsert / HashMapGet.             *)
(***************************************************************************)
EXTENDS Integers, Sequences, FiniteSets, TLC

(* ------------------------------ bounds --------------------------------- *)
\* frames (calls of draw) in one run
MaxFrames == 3
\* calls of draw_window in one run
MaxCalls == 2
\* updates of the editor state by its producer in one run
MaxWrites == 2

(* ------------------------- f32 as rationals ---------------------------- *)
Abs(n) == IF n < 0 THEN -n ELSE n

RECURSIVE GCD(_, _)
GCD(a, b) == IF b = 0 THEN a ELSE GCD(b, a % b)

Rat(n, d) == LET g == GCD(Abs(n), d) IN <<n \div g, d \div g>>
F(n) == <<n, 1>>
FAdd(a, b) == Rat(a[1] * b[2] + b[1] * a[2], a[2] * b[2])
FSub(a, b) == Rat(a[1] * b[2] - b[1] * a[2], a[2] * b[2])
FMul(a, b) == Rat(a[1] * b[1], a[2] * b[2])
FLe(a, b) == a[1] * b[2] <= b[1] * a[2]
FLt(a, b) == a[1] * b[2] < b[1] * a[2]
\* f32::ceil
Ceil(a) == F(-((-a[1]) \div a[2]))
\* `x as i32`: truncation toward zero
AsI32(a) == IF a[1] >= 0 THEN a[1] \div a[2] ELSE -((-a[1]) \div a[2])

None == <<>>
Some(x) == <<x>>

(* ------------------------------ inputs --------------------------------- *)
Colors == {"c0", "c1", "c2"}
WHITE == "white"

\* font options the guifont setting can select: [name, size]
FontA == [name |-> "A", size |-> F(10)]
FontB == [name |-> "B", size |-> F(15)]
Fonts == {FontA, FontB}

Flags(b, i, u, uc, s) ==
    [bold |-> b, italic |-> i, underline |-> u, undercurl |-> uc, strikethrough |-> s]
NoFlags == Flags(FALSE, FALSE, FALSE, FALSE, FALSE)

\* editor::Style: optional colors plus decoration flags
Style(bg, fg, sp, fl) ==
    [colors |-> [background |-> bg, foreground |-> fg, special |-> sp],
     bold |-> fl.bold, italic |-> fl.italic, underline |-> fl.underline,
     undercurl |-> fl.undercurl, strikethrough |-> fl.strikethrough]

(* ---------------- shaping cache (external capability) ------------------ *)
\* CachingShaper::font_base_dimensions: (width, height) of the current font
font_base_dimensions(options) ==
    IF options.name = "A" THEN <<F(1), Rat(3, 2)>> ELSE <<Rat(3, 2), Rat(7, 4)>>

\* CachingShaper::underline_position
underline_position(options) ==
    IF options.name = "A" THEN Rat(1, 4) ELSE Rat(1, 2)

\* CachingShaper::shape_cached: the glyph runs of (text, bold, italic) in the
\* current font; deterministic for a fixed key
shape_cached(options, text, bold, italic) ==
    <<[text |-> text, bold |-> bold, italic |-> italic, font |-> options.name]>>

\* CachingShaper::update_font: reports whether the options changed
shaper_update_font(sh, guifont_setting) ==
    [updated |-> guifont_setting # sh.options,
     shaper |-> [sh EXCEPT !.options = guifont_setting]]

(* ------------------------- style resolution ---------------------------- *)
\* Style::background / foreground / special: the style's own channel if set,
\* else the default colors' channel
StyleBackground(style, default_colors) ==
    IF style.colors.background # None THEN style.colors.background[1]
    ELSE default_colors.background[1]
StyleForeground(style, default_colors) ==
    IF style.colors.foreground # None THEN style.colors.foreground[1]
    ELSE default_colors.foreground[1]
StyleSpecial(style, default_colors) ==
    IF style.colors.special # None THEN style.colors.special[1]
    ELSE default_colors.special[1]

\* str::trim_end on a text given as a sequence of characters
RECURSIVE trim_end(_)
trim_end(text) ==
    IF text # <<>> /\ text[Len(text)] = " "
    THEN trim_end(SubSeq(text, 1, Len(text) - 1))
    ELSE text

(* ------------------------------ HashMap -------------------------------- *)
HashMapKeys(m) == {e.key : e \in m}
\* HashMap::get (as an Option)
HashMapGet(m, k) ==
    IF k \in HashMapKeys(m) THEN Some((CHOOSE e \in m : e.key = k).value) ELSE None
\* HashMap::remove: the map without the key
HashMapRemove(m, k) == {e \in m : e.key # k}
\* HashMap::insert: replaces the value of an existing key
HashMapInsert(m, k, v) == {e \in m : e.key # k} \cup {[key |-> k, value |-> v]}

(* --------------------------- skia surfaces ----------------------------- *)
Pixels(w, h) == (0 .. w - 1) \X (0 .. h - 1)

\* Canvas::clear
CanvasClear(surface, color) ==
    [surface EXCEPT !.pixels = [p \in Pixels(surface.width, surface.height) |-> color]]

\* Canvas::draw_rect with a non-anti-aliased fill paint: a pixel is filled when
\* its centre lies in the rectangle
CanvasDrawRect(surface, region, color) ==
    LET Inside(p) ==
            /\ FLe(region.left, Rat(2 * p[1] + 1, 2))
            /\ FLt(Rat(2 * p[1] + 1, 2), region.right)
            /\ FLe(region.top, Rat(2 * p[2] + 1, 2))
            /\ FLt(Rat(2 * p[2] + 1, 2), region.bottom)
    IN [surface EXCEPT !.pixels =
           [p \in Pixels(surface.width, surface.height) |->
               IF Inside(p) THEN color ELSE surface.pixels[p]]]

\* Surface::draw(canvas, (x, y), None): the source drawn unscaled with its
\* top-left corner at (x, y) of the destination, clipped to the destination
SurfaceDraw(src, dst, x, y) ==
    [dst EXCEPT !.pixels =
        [p \in Pixels(dst.width, dst.height) |->
            IF <<p[1] - x, p[2] - y>> \in Pixels(src.width, src.height)
            THEN src.pixels[<<p[1] - x, p[2] - y>>]
            ELSE dst.pixels[p]]]

Rect(l, t, r, b) == [left |-> l, top |-> t, right |-> r, bottom |-> b]

(* ------------------------- coordinate mapper --------------------------- *)
compute_text_region(font_w, font_h, grid_pos, cell_width) ==
    LET x == FMul(F(grid_pos[1]), font_w)
        y == FMul(F(grid_pos[2]), font_h)
        width == FMul(F(cell_width), font_w)
        height == font_h
    IN Rect(x, y, FAdd(x, width), FAdd(y, height))

(* ------------------------- cell draw pipeline -------------------------- *)
\* A canvas onto a surface: the pixels, the clip in force, the save stack and
\* the draw calls issued so far (each with the paint it was issued with and
\* the index of the draw command being processed)
NewCanvas(surface) ==
    [surface |-> surface, clip |-> None, saved |-> <<>>, ops |-> <<>>, cmd |-> 0]

CanvasOp(canvas, kind, geom, pnt, blob) ==
    [op |-> kind, cmd |-> canvas.cmd, geom |-> geom, paint |-> pnt,
     clip |-> canvas.clip, blob |-> blob]

\* Canvas::save / Canvas::restore keep the clip (never the Paint, which is
\* no canvas state)
CanvasSave(canvas) == [canvas EXCEPT !.saved = Append(@, canvas.clip)]
CanvasRestore(canvas) ==
    [canvas EXCEPT !.clip = canvas.saved[Len(canvas.saved)],
                   !.saved = SubSeq(@, 1, Len(@) - 1)]
CanvasClipRect(canvas, region) == [canvas EXCEPT !.clip = Some(region)]
CanvasDrawLine(canvas, from, to, pnt) ==
    [canvas EXCEPT !.ops = Append(@,
        CanvasOp(canvas, "line", Rect(from[1], from[2], to[1], to[2]), pnt, <<>>))]
CanvasDrawTextBlobs(canvas, blobs, at, pnt) ==
    [canvas EXCEPT !.ops = @ \o
        [i \in 1 .. Len(blobs) |->
            CanvasOp(canvas, "text", Rect(at[1], at[2], at[1], at[2]), pnt, <<blobs[i]>>)]]

ResolveStyleBlank(style, default_style) ==
    IF style = None THEN Style(None, None, None, NoFlags) ELSE style[1]

\* the style a command is drawn with: style.as_ref().unwrap_or(default_style)
ResolveStyle(style, default_style) ==
    IF style = None THEN default_style ELSE style[1]

\* draw_background: paint.set_color(..); canvas.draw_rect(region, &paint)
background_fill(d, region, color) ==
    [self |-> [d.self EXCEPT !.paint.color = color],
     canvas |-> [d.canvas EXCEPT
        !.surface = CanvasDrawRect(@, region, color),
        !.ops = Append(@, CanvasOp(d.canvas, "rect", region,
                                   [d.self.paint EXCEPT !.color = color], <<>>))]]

\* Renderer::draw_background on d = [self, canvas]
draw_background(d, grid_pos, cell_width, style, default_style) ==
    background_fill(d,
        compute_text_region(d.self.font_width, d.self.font_height, grid_pos, cell_width),
        StyleBackground(ResolveStyle(style, default_style), default_style.colors))

\* draw_foreground: canvas.save(), the region, canvas.clip_rect
foreground_clip(d, region) ==
    [d EXCEPT !.canvas = CanvasClipRect(CanvasSave(@), region)]

\* draw_foreground: the paint of the underline / undercurl
underline_paint(pnt, style, default_style, stroke_width) ==
    [pnt EXCEPT !.color = StyleSpecial(style, default_style.colors),
                !.stroke_width = stroke_width,
                !.path_effect =
                    IF style.undercurl
                    THEN Some(<<FMul(stroke_width, F(2)), FMul(stroke_width, F(2))>>)
                    ELSE None]

\* draw_foreground: if style.underline || style.undercurl { .. }
foreground_underline(d, x, y, width, style, default_style) ==
    IF style.underline \/ style.undercurl
    THEN [self |-> [d.self EXCEPT !.paint =
                      underline_paint(@, style, default_style,
                                      FMul(d.self.shaper.options.size, Rat(1, 10)))],
          canvas |-> CanvasDrawLine(d.canvas,
              <<x, FAdd(FSub(y, underline_position(d.self.shaper.options)),
                        d.self.font_height)>>,
              <<FAdd(x, width),
                FAdd(FSub(y, underline_position(d.self.shaper.options)),
                     d.self.font_height)>>,
              underline_paint(d.self.paint, style, default_style,
                              FMul(d.self.shaper.options.size, Rat(1, 10))))]
    ELSE d

\* draw_foreground: the foreground color and the glyphs of the trimmed text
foreground_text(d, text, x, y, style, default_style) ==
    [self |-> [d.self EXCEPT !.paint.color =
                  StyleForeground(style, default_style.colors)],
     canvas |->
        IF trim_end(text) # <<>>
        THEN CanvasDrawTextBlobs(d.canvas,
                 shape_cached(d.self.shaper.options, trim_end(text),
                              style.bold, style.italic),
                 <<x, y>>,
                 [d.self.paint EXCEPT !.color =
                     StyleForeground(style, default_style.colors)])
        ELSE d.canvas]

\* draw_foreground: if style.strikethrough { .. }
foreground_strikethrough(d, x, width, center_y, style, default_style) ==
    IF style.strikethrough
    THEN [self |-> [d.self EXCEPT !.paint.color =
                      StyleSpecial(style, default_style.colors)],
          canvas |-> CanvasDrawLine(d.canvas, <<x, center_y>>,
              <<FAdd(x, width), center_y>>,
              [d.self.paint EXCEPT !.color =
                  StyleSpecial(style, default_style.colors)])]
    ELSE d

\* draw_foreground: canvas.restore()
foreground_restore(d) == [d EXCEPT !.canvas = CanvasRestore(@)]

RectCenterY(region) == FMul(FAdd(region.top, region.bottom), Rat(1, 2))

\* draw_foreground with its locals x, y, width, style and region as parameters
foreground_steps(d, text, x, y, width, style, region, default_style) ==
    foreground_restore(
      foreground_strikethrough(
        foreground_text(
          foreground_underline(foreground_clip(d, region),
                               x, y, width, style, default_style),
          text, x, y, style, default_style),
        x, width, RectCenterY(region), style, default_style))

\* Renderer::draw_foreground on d = [self, canvas]
draw_foreground(d, text, grid_pos, cell_width, style, default_style) ==
    foreground_steps(d, text,
        FMul(F(grid_pos[1]), d.self.font_width),
        FMul(F(grid_pos[2]), d.self.font_height),
        FMul(F(cell_width), d.self.font_width),
        ResolveStyle(style, default_style),
        compute_text_region(d.self.font_width, d.self.font_height, grid_pos, cell_width),
        default_style)

WithCmd(d, i) == [d EXCEPT !.canvas.cmd = i]

\* for command in draw_commands.iter() { self.draw_background(..) }
RECURSIVE background_pass(_, _, _, _)
background_pass(d, commands, i, default_style) ==
    IF i > Len(commands) THEN d
    ELSE background_pass(
             draw_background(WithCmd(d, i), commands[i].grid_position,
                             commands[i].cell_width, commands[i].style, default_style),
             commands, i + 1, default_style)

\* for command in draw_commands.iter() { self.draw_foreground(..) }
RECURSIVE foreground_pass(_, _, _, _)
foreground_pass(d, commands, i, default_style) ==
    IF i > Len(commands) THEN d
    ELSE foreground_pass(
             draw_foreground(WithCmd(d, i), commands[i].text, commands[i].grid_position,
                             commands[i].cell_width, commands[i].style, default_style),
             commands, i + 1, default_style)

(* ------------------------ window surface cache ------------------------- *)
\* Renderer::build_window_surface: a surface of the given pixel dimensions,
\* cleared to the default background (the allocation itself may fail: see
\* draw_window)
build_window_surface(default_style, dimensions) ==
    CanvasClear([width |-> dimensions[1], height |-> dimensions[2], pixels |-> <<>>],
                default_style.colors.background[1])

\* target position of a window in pixels
target_position(self, info) ==
    <<FMul(F(info.grid_position[1]), self.font_width),
      FMul(F(info.grid_position[2]), self.font_height)>>

ImageSizeStale(self, info) ==
    <<AsI32(FMul(F(info.width), font_base_dimensions(FontA)[1])),
      AsI32(FMul(F(info.height), font_base_dimensions(FontA)[2]))>>

\* target size of a window's surface in pixels
image_size(self, info) ==
    <<AsI32(FMul(F(info.width), self.font_width)),
      AsI32(FMul(F(info.height), self.font_height))>>

TakeIgnoringClear(self, info) ==
    [found |-> HashMapGet(self.rendered_windows, info.grid_id),
     rendered_windows |-> HashMapRemove(self.rendered_windows, info.grid_id)]

\* the cached window that draw_window reuses, if any, and the map it leaves
take_rendered_window(self, info) ==
    IF info.should_clear
    THEN [found |-> None, rendered_windows |-> self.rendered_windows]
    ELSE [found |-> HashMapGet(self.rendered_windows, info.grid_id),
          rendered_windows |-> HashMapRemove(self.rendered_windows, info.grid_id)]

NewRenderedWindowUnsized(default_style, image, target) ==
    [surface |-> build_window_surface(default_style, <<image[1] + 1, image[2]>>),
     current_position |-> target]

\* the RenderedWindow built when none is reused
new_rendered_window(default_style, image, target) ==
    [surface |-> build_window_surface(default_style, image),
     current_position |-> target]

SizeMismatchWidthOnly(surface, image) == surface.width # image[1]

\* the resize check
size_mismatch(surface, image) ==
    surface.width # image[1] \/ surface.height # image[2]

RebuiltWithoutCopy(old_surface, default_style, image) ==
    build_window_surface(default_style, image)

\* the replacement surface of a resize: a fresh surface with the old one drawn
\* onto it at the origin
rebuilt_surface(old_surface, default_style, image) ==
    SurfaceDraw(old_surface, build_window_surface(default_style, image), 0, 0)

ResizedAtOrigin(rendered_window, default_style, image) ==
    [surface |-> rebuilt_surface(rendered_window.surface, default_style, image),
     current_position |-> <<F(0), F(0)>>]

\* the RenderedWindow after a resize: same window, replacement surface
resized_window(rendered_window, default_style, image) ==
    [rendered_window EXCEPT !.surface = rebuilt_surface(@, default_style, image)]

SmoothHalf(current, target) == FAdd(current, FMul(FSub(target, current), Rat(1, 2)))

\* one smoothing step of one axis
smooth(current, target) == FAdd(current, FMul(FSub(target, current), Rat(2, 5)))

WindowRegionAsSize(position, image) ==
    Rect(position[1], position[2], F(image[1]), F(image[2]))

\* the region published for a window
window_region(position, image) ==
    Rect(position[1], position[2],
         FAdd(position[1], F(image[1])), FAdd(position[2], F(image[2])))

RootOp(kind, color, grid_id, at, size) ==
    [op |-> kind, color |-> color, grid_id |-> grid_id, at |-> at, size |-> size]
RootCall(kind) == RootOp(kind, "", 0, <<F(0), F(0)>>, <<0, 0>>)

\* draw_window, lines 202-220: the locals w of the call once the window is
\* resolved or created
window_locals(self, info, default_style, target, image, taken) ==
    [self |-> [self EXCEPT !.rendered_windows = taken.rendered_windows],
     info |-> info, default_style |-> default_style,
     font |-> <<self.font_width, self.font_height>>,
     target |-> target, image |-> image,
     cached |-> HashMapGet(self.rendered_windows, info.grid_id),
     found |-> taken.found,
     created |-> taken.found = None,
     rebuilt |-> FALSE,
     allocations |-> IF taken.found = None THEN 1 ELSE 0,
     rendered_window |->
        IF taken.found = None THEN new_rendered_window(default_style, image, target)
        ELSE taken.found[1],
     before_repaint |-> None,
     ops |-> <<>>]

resolve_window(self, info, default_style) ==
    window_locals(self, info, default_style, target_position(self, info),
                  image_size(self, info), take_rendered_window(self, info))

\* draw_window, lines 222-226
resize_window(w) ==
    IF size_mismatch(w.rendered_window.surface, w.image)
    THEN [w EXCEPT !.rebuilt = TRUE, !.allocations = @ + 1,
                   !.rendered_window = resized_window(@, w.default_style, w.image)]
    ELSE w

\* draw_window, lines 228-231
smooth_window(w) ==
    [w EXCEPT !.rendered_window.current_position =
                 <<smooth(@[1], w.target[1]), smooth(@[2], w.target[2])>>]

\* one pass that fills and draws each command in turn
RECURSIVE InterleavedPass(_, _, _, _)
InterleavedPass(d, commands, i, default_style) ==
    IF i > Len(commands) THEN d
    ELSE InterleavedPass(
             draw_foreground(
                 draw_background(WithCmd(d, i), commands[i].grid_position,
                                 commands[i].cell_width, commands[i].style, default_style),
                 commands[i].text, commands[i].grid_position,
                 commands[i].cell_width, commands[i].style, default_style),
             commands, i + 1, default_style)

RepaintInterleaved(w) ==
    [w EXCEPT !.before_repaint = Some(w.rendered_window),
              !.self = InterleavedPass([self |-> w.self,
                                        canvas |-> NewCanvas(w.rendered_window.surface)],
                                       w.info.draw_commands, 1, w.default_style).self,
              !.ops = InterleavedPass([self |-> w.self,
                                       canvas |-> NewCanvas(w.rendered_window.surface)],
                                      w.info.draw_commands, 1, w.default_style).canvas.ops]

\* draw_window, lines 233-254: both passes over the window's surface
painted(w, d) ==
    [w EXCEPT !.before_repaint = Some(w.rendered_window),
              !.self = d.self,
              !.rendered_window.surface = d.canvas.surface,
              !.ops = d.canvas.ops]

repaint_window(w) ==
    painted(w,
        foreground_pass(
            background_pass([self |-> w.self,
                             canvas |-> NewCanvas(w.rendered_window.surface)],
                            w.info.draw_commands, 1, w.default_style),
            w.info.draw_commands, 1, w.default_style))

\* draw_window, lines 256-262: the composite onto the root canvas
composite_window(root_canvas, w) ==
    root_canvas \o
        << RootCall("save_layer"),
           RootOp("surface", "", w.info.grid_id, w.rendered_window.current_position,
                  <<w.rendered_window.surface.width, w.rendered_window.surface.height>>),
           RootCall("restore") >>

\* draw_window, lines 264-266: the insert and the returned (grid_id, Rect)
publish_window(root_canvas, w) ==
    [self |-> [w.self EXCEPT !.rendered_windows =
                  HashMapInsert(@, w.info.grid_id, w.rendered_window)],
     root_canvas |-> composite_window(root_canvas, w),
     panicked |-> FALSE,
     region |-> <<w.info.grid_id,
                  window_region(w.rendered_window.current_position, w.image)>>,
     call |-> [w EXCEPT !.self = None]]

\* .expect("Could not create surface"): the call ends where the allocation fails
panic_window(self, root_canvas, w) ==
    [self |-> [self EXCEPT !.rendered_windows = w.self.rendered_windows],
     root_canvas |-> root_canvas, panicked |-> TRUE,
     region |-> <<w.info.grid_id, window_region(w.target, w.image)>>,
     call |-> None]

Allocates(w) ==
    w.created \/ size_mismatch(w.rendered_window.surface, w.image)

window_result(self, root_canvas, w, alloc_fails) ==
    IF alloc_fails /\ Allocates(w)
    THEN panic_window(self, root_canvas, w)
    ELSE publish_window(root_canvas, repaint_window(smooth_window(resize_window(w))))

\* Renderer::draw_window. alloc_fails: Surface::new_render_target returns None
\* in this call. The result carries the renderer after the call, the root
\* canvas, the returned (grid_id, Rect), whether the call panicked, and the
\* call's locals.
draw_window(self, root_canvas, info, default_style, alloc_fails) ==
    window_result(self, root_canvas, resolve_window(self, info, default_style),
                  alloc_fails)

FontUpdatedAlways(self, u) ==
    [updated |-> u.updated,
     self |-> [self EXCEPT !.shaper = u.shaper,
                   !.font_width = font_base_dimensions(u.shaper.options)[1],
                   !.font_height = Ceil(font_base_dimensions(u.shaper.options)[2])]]

\* Renderer::update_font on u = shaper.update_font(guifont_setting)
font_updated(self, u) ==
    [updated |-> u.updated,
     self |-> IF u.updated
              THEN [self EXCEPT !.shaper = u.shaper,
                        !.font_width = font_base_dimensions(u.shaper.options)[1],
                        !.font_height = Ceil(font_base_dimensions(u.shaper.options)[2])]
              ELSE [self EXCEPT !.shaper = u.shaper]]

\* Renderer::update_font
update_font(self, guifont_setting) ==
    font_updated(self, shaper_update_font(self.shaper, guifont_setting))

EvictNothing(map, closed_window_ids) == map

EvictEverything(map, closed_window_ids) ==
    IF closed_window_ids = {} THEN map ELSE {}

\* for closed_window_id in closed_window_ids { rendered_windows.remove(..) }
RECURSIVE evict_closed(_, _)
evict_closed(map, closed_window_ids) ==
    IF closed_window_ids = {} THEN map
    ELSE LET id == CHOOSE i \in closed_window_ids : TRUE
         IN evict_closed(HashMapRemove(map, id), closed_window_ids \ {id})

(* --------------------------- frame inputs ------------------------------ *)
GridIds == {1, 2}
GridPositions == {<<0, 0>>, <<2, 1>>}
GridSizes == {<<1, 1>>, <<2, 2>>}

DrawCommand(pos, cell_width, text, style) ==
    [grid_position |-> pos, cell_width |-> cell_width, text |-> text, style |-> style]

CmdPlain == DrawCommand(<<0, 0>>, 1, <<"a", " ">>, None)
CmdBlank == DrawCommand(<<1, 0>>, 1, <<" ">>, None)
CmdCurl ==
    DrawCommand(<<0, 0>>, 1, <<"b">>,
                Some(Style(Some("c2"), None, Some("c1"),
                           Flags(FALSE, TRUE, FALSE, TRUE, FALSE))))
CmdStrike ==
    DrawCommand(<<1, 0>>, 1, <<"c">>,
                Some(Style(None, None, None, Flags(FALSE, FALSE, FALSE, FALSE, TRUE))))

WindowRenderInfo(id, pos, size, clear, cmds) ==
    [grid_id |-> id, grid_position |-> pos, width |-> size[1], height |-> size[2],
     should_clear |-> clear, draw_commands |-> cmds]

PlainStyle == Style(Some("c0"), Some("c1"), Some("c2"), NoFlags)
DecoratedStyle ==
    Style(Some("c1"), Some("c0"), Some("c2"), Flags(TRUE, FALSE, TRUE, FALSE, TRUE))

CurlStyle ==
    Style(Some("c0"), Some("c1"), Some("c2"), Flags(FALSE, TRUE, FALSE, TRUE, FALSE))

\* the snapshots of the window-cache specification: every id, position, size
\* and clear flag, one command list, one default style
DefaultStyles == {PlainStyle}
ClosedWindowIds == {{}, {1}, {1, 2}}
GuifontSettings == {None} \cup {Some(f) : f \in Fonts}
WindowRenderInfos ==
    {WindowRenderInfo(id, pos, size, clear, <<CmdCurl, CmdStrike>>) :
        id \in GridIds, pos \in GridPositions, size \in GridSizes, clear \in BOOLEAN}

\* the snapshots of the cell-pipeline specification: one window at the origin,
\* every size and clear flag, several command lists and default styles
CellDefaultStyles == {PlainStyle, DecoratedStyle, CurlStyle}
CellClosedWindowIds == {{}}
CellGuifontSettings == {None, Some(FontB)}
CellWindowRenderInfos ==
    {WindowRenderInfo(1, <<0, 0>>, size, clear, cmds) :
        size \in GridSizes, clear \in BOOLEAN,
        cmds \in {<<CmdPlain>>, <<CmdCurl, CmdStrike>>, <<CmdCurl, CmdPlain, CmdBlank>>}}

DtValues == {16, 33}

(* --------------------------- editor state ------------------------------ *)
\* what the editor holds for the renderer: the windows and closed grids that
\* build_render_info reports, the default style, the cursor and the guifont
EditorContent(windows, closed_window_ids, default_style, cursor, guifont) ==
    [windows |-> windows, closed_window_ids |-> closed_window_ids,
     default_style |-> default_style, cursor |-> cursor, guifont |-> guifont]

\* the editor before any update: nothing to draw, no font override
QuietEditor == EditorContent(<<>>, {}, PlainStyle, <<0, 0>>, None)
OneWindowEditor ==
    EditorContent(
        <<WindowRenderInfo(1, <<2, 1>>, <<1, 1>>, FALSE, <<CmdCurl, CmdStrike>>)>>,
        {}, PlainStyle, <<0, 0>>, None)
TwoWindowEditor ==
    EditorContent(
        <<WindowRenderInfo(2, <<0, 0>>, <<2, 2>>, FALSE, <<CmdCurl, CmdStrike>>),
          WindowRenderInfo(1, <<0, 0>>, <<2, 2>>, FALSE, <<CmdCurl, CmdStrike>>)>>,
        {1}, DecoratedStyle, <<1, 1>>, Some(FontB))
\* the only window is closed and the font is overridden
ClosingEditor == EditorContent(<<>>, {1}, PlainStyle, <<0, 0>>, Some(FontB))
EditorContents == {OneWindowEditor, TwoWindowEditor, ClosingEditor}

\* the fields the render thread copies out, in the order it reads them
SnapshotFields == <<"render_info", "default_style", "cursor", "guifont">>

\* the editor state of one update: every field carries the update it is of
EditorState(version, content) ==
    [render_info |-> [version |-> version, windows |-> content.windows,
                      closed_window_ids |-> content.closed_window_ids],
     default_style |-> [version |-> version, value |-> content.default_style],
     cursor |-> [version |-> version, value |-> content.cursor],
     guifont |-> [version |-> version, value |-> content.guifont]]

(* ------------------------------- state --------------------------------- *)
VARIABLES
    rendered_windows,   \* Renderer.rendered_windows: HashMap<u64, RenderedWindow>
    paint,              \* Renderer.paint
    shaper,             \* Renderer.shaper
    font_width,         \* Renderer.font_width
    font_height,        \* Renderer.font_height
    window_regions,     \* Renderer.window_regions
    pc,                 \* position of the render thread in draw
    frame,              \* locals of the draw call in progress (kept until the next)
    root_canvas,        \* draw calls received by gpu_canvas in this frame
    queued,             \* queue_next_frame requests received by the scheduler
    ret,                \* value returned by the last completed draw call
    call,               \* locals of the last draw_window call of this frame
    frames,             \* draw calls started
    calls,              \* draw_window calls made
    editor,             \* EDITOR: the mutex and the editor state it guards
    producer,           \* position of the thread that updates the editor state
    snapshot            \* what the render thread has read under the lock

vars == <<rendered_windows, paint, shaper, font_width, font_height, window_regions,
          pc, frame, root_canvas, queued, ret, call, frames, calls,
          editor, producer, snapshot>>

Self ==
    [rendered_windows |-> rendered_windows, paint |-> paint, shaper |-> shaper,
     font_width |-> font_width, font_height |-> font_height]

Range(seq) == {seq[i] : i \in 1 .. Len(seq)}

NoFrame ==
    [default_style |-> None, closed_window_ids |-> {}, guifont_setting |-> None,
     font_changed |-> FALSE, collected |-> <<>>, windows |-> <<>>,
     before |-> [rendered_windows |-> {}, window_regions |-> <<>>,
                 options |-> FontA, font |-> <<F(0), F(0)>>]]

\* Renderer::new
Init ==
    /\ rendered_windows = {}
    /\ paint = [color |-> WHITE, stroke_width |-> F(0), path_effect |-> None]
    /\ shaper = [options |-> FontA]
    /\ font_width = font_base_dimensions(FontA)[1]
    /\ font_height = font_base_dimensions(FontA)[2]
    /\ window_regions = <<>>
    /\ pc = "idle"
    /\ frame = NoFrame
    /\ root_canvas = <<>>
    /\ queued = 0
    /\ ret = None
    /\ call = None
    /\ frames = 0
    /\ calls = 0
    /\ editor = [locked_by |-> "nobody", version |-> 0,
                 state |-> EditorState(0, QuietEditor)]
    /\ producer = [pending |-> None, written |-> 0, writes |-> 0]
    /\ snapshot = <<>>

\* Renderer::draw up to the window loop: the frame request, the snapshot of
\* the editor, the clear of the root target, the font override, the eviction
\* of closed windows and the coordinate transform
draw_begin(default_style, closed_window_ids, guifont_setting) ==
    /\ pc = "idle"
    /\ frames < MaxFrames
    /\ LET f == IF guifont_setting = None
                THEN [updated |-> FALSE, self |-> Self]
                ELSE update_font(Self, guifont_setting[1])
       IN /\ shaper' = f.self.shaper
          /\ font_width' = f.self.font_width
          /\ font_height' = f.self.font_height
          /\ frame' = [default_style |-> Some(default_style),
                       closed_window_ids |-> closed_window_ids,
                       guifont_setting |-> guifont_setting,
                       font_changed |-> f.updated,
                       collected |-> <<>>, windows |-> <<>>,
                       before |-> [rendered_windows |-> rendered_windows,
                                   window_regions |-> window_regions,
                                   options |-> shaper.options,
                                   font |-> <<font_width, font_height>>]]
    /\ queued' = queued + 1
    /\ root_canvas' = << RootOp("clear", default_style.colors.background[1], 0,
                                <<F(0), F(0)>>, <<0, 0>>),
                         RootCall("use_logical_coordinates") >>
    /\ rendered_windows' = evict_closed(rendered_windows, closed_window_ids)
    /\ pc' = "windows"
    /\ frames' = frames + 1
    /\ call' = None
    /\ UNCHANGED <<paint, window_regions, ret, calls, editor, producer, snapshot>>

\* one iteration of render_info.windows.iter().map(draw_window); the windows
\* of one snapshot are distinct grids
draw_window_step(info, alloc_fails) ==
    /\ pc = "windows"
    /\ info.grid_id \notin {w.grid_id : w \in Range(frame.windows)}
    /\ calls < MaxCalls
    /\ LET r == draw_window(Self, root_canvas, info, frame.default_style[1], alloc_fails)
       IN /\ rendered_windows' = r.self.rendered_windows
          /\ paint' = r.self.paint
          /\ root_canvas' = r.root_canvas
          /\ call' = IF r.panicked THEN None ELSE Some(r.call)
          /\ frame' = [frame EXCEPT
                          !.windows = Append(@, info),
                          !.collected = IF r.panicked THEN @ ELSE Append(@, r.region)]
          /\ pc' = IF r.panicked THEN "panicked" ELSE "windows"
    /\ calls' = calls + 1
    /\ UNCHANGED <<shaper, font_width, font_height, window_regions, queued, ret, frames,
                   editor, producer, snapshot>>

DrawEndAppending(dt) ==
    /\ pc = "windows"
    /\ window_regions' = window_regions \o frame.collected
    /\ root_canvas' = Append(root_canvas, RootOp("cursor", "", 0, <<F(dt), F(0)>>, <<0, 0>>))
    /\ ret' = Some(frame.font_changed)
    /\ pc' = "idle"
    /\ UNCHANGED <<rendered_windows, paint, shaper, font_width, font_height, frame,
                   queued, call, frames, calls, editor, producer, snapshot>>

DrawEndAfterPanic(dt) ==
    /\ pc \in {"windows", "panicked"}
    /\ window_regions' = frame.collected
    /\ root_canvas' = Append(root_canvas, RootOp("cursor", "", 0, <<F(dt), F(0)>>, <<0, 0>>))
    /\ ret' = Some(frame.font_changed)
    /\ pc' = "idle"
    /\ UNCHANGED <<rendered_windows, paint, shaper, font_width, font_height, frame,
                   queued, call, frames, calls, editor, producer, snapshot>>

\* the end of Renderer::draw: the collected regions replace window_regions,
\* the cursor is drawn, font_changed is returned
draw_end(dt) ==
    /\ pc = "windows"
    /\ window_regions' = frame.collected
    /\ root_canvas' = Append(root_canvas, RootOp("cursor", "", 0, <<F(dt), F(0)>>, <<0, 0>>))
    /\ ret' = Some(frame.font_changed)
    /\ pc' = "idle"
    /\ UNCHANGED <<rendered_windows, paint, shaper, font_width, font_height, frame,
                   queued, call, frames, calls, editor, producer, snapshot>>

Next ==
    \/ \E ds \in DefaultStyles, closed \in ClosedWindowIds, gf \in GuifontSettings :
          draw_begin(ds, closed, gf)
    \/ \E info \in WindowRenderInfos, alloc_fails \in BOOLEAN :
          draw_window_step(info, alloc_fails)
    \/ \E dt \in DtValues : draw_end(dt)

Spec == Init /\ [][Next]_vars

NextCells ==
    \/ \E ds \in CellDefaultStyles, closed \in CellClosedWindowIds,
          gf \in CellGuifontSettings :
          draw_begin(ds, closed, gf)
    \/ \E info \in CellWindowRenderInfos, alloc_fails \in BOOLEAN :
          draw_window_step(info, alloc_fails)
    \/ \E dt \in DtValues : draw_end(dt)

SpecCells == Init /\ [][NextCells]_vars

(* ------------- the frame step by step, beside the producer ------------- *)
\* The producer of editor state: it takes the editor lock, writes the fields
\* of the next state one after the other and releases the lock.
producer_lock(content) ==
    /\ producer.pending = None
    /\ producer.writes < MaxWrites
    /\ editor.locked_by = "nobody"
    /\ editor' = [editor EXCEPT !.locked_by = "producer"]
    /\ producer' = [producer EXCEPT
                       !.pending = Some(EditorState(editor.version + 1, content)),
                       !.written = 0]
    /\ UNCHANGED <<rendered_windows, paint, shaper, font_width, font_height,
                   window_regions, pc, frame, root_canvas, queued, ret, call, frames,
                   calls, snapshot>>

producer_write ==
    /\ producer.pending # None
    /\ producer.written < Len(SnapshotFields)
    /\ editor' = [editor EXCEPT !.state[SnapshotFields[producer.written + 1]] =
                                    producer.pending[1][SnapshotFields[producer.written + 1]]]
    /\ producer' = [producer EXCEPT !.written = @ + 1]
    /\ UNCHANGED <<rendered_windows, paint, shaper, font_width, font_height,
                   window_regions, pc, frame, root_canvas, queued, ret, call, frames,
                   calls, snapshot>>

producer_unlock ==
    /\ producer.pending # None
    /\ producer.written = Len(SnapshotFields)
    /\ editor' = [editor EXCEPT !.locked_by = "nobody", !.version = @ + 1]
    /\ producer' = [pending |-> None, written |-> 0, writes |-> producer.writes + 1]
    /\ UNCHANGED <<rendered_windows, paint, shaper, font_width, font_height,
                   window_regions, pc, frame, root_canvas, queued, ret, call, frames,
                   calls, snapshot>>

\* Renderer::draw is entered (line 275)
draw_enter ==
    /\ pc = "idle"
    /\ frames < MaxFrames
    /\ frames' = frames + 1
    /\ frame' = [NoFrame EXCEPT !.before =
                     [rendered_windows |-> rendered_windows,
                      window_regions |-> window_regions,
                      options |-> shaper.options,
                      font |-> <<font_width, font_height>>]]
    /\ root_canvas' = <<>>
    /\ call' = None
    /\ snapshot' = <<>>
    /\ pc' = "entered"
    /\ UNCHANGED <<rendered_windows, paint, shaper, font_width, font_height,
                   window_regions, queued, ret, calls, editor, producer>>

QueueNextFrameSkipped ==
    /\ pc = "entered"
    /\ pc' = "queued"
    /\ UNCHANGED <<rendered_windows, paint, shaper, font_width, font_height,
                   window_regions, frame, root_canvas, queued, ret, call, frames, calls,
                   editor, producer, snapshot>>

\* REDRAW_SCHEDULER.queue_next_frame() (line 277)
queue_next_frame ==
    /\ pc = "entered"
    /\ queued' = queued + 1
    /\ pc' = "queued"
    /\ UNCHANGED <<rendered_windows, paint, shaper, font_width, font_height,
                   window_regions, frame, root_canvas, ret, call, frames, calls,
                   editor, producer, snapshot>>

LockEditorUnguarded ==
    /\ pc = "queued"
    /\ pc' = "locked"
    /\ UNCHANGED <<rendered_windows, paint, shaper, font_width, font_height,
                   window_regions, frame, root_canvas, queued, ret, call, frames, calls,
                   editor, producer, snapshot>>

\* EDITOR.lock() (line 280): waits until the lock is free and takes it
lock_editor ==
    /\ pc = "queued"
    /\ editor.locked_by = "nobody"
    /\ editor' = [editor EXCEPT !.locked_by = "renderer"]
    /\ pc' = "locked"
    /\ UNCHANGED <<rendered_windows, paint, shaper, font_width, font_height,
                   window_regions, frame, root_canvas, queued, ret, call, frames, calls,
                   producer, snapshot>>

\* the next of the four reads of lines 282-285
read_editor ==
    /\ pc = "locked"
    /\ Len(snapshot) < Len(SnapshotFields)
    /\ snapshot' = Append(snapshot, editor.state[SnapshotFields[Len(snapshot) + 1]])
    /\ UNCHANGED <<rendered_windows, paint, shaper, font_width, font_height,
                   window_regions, pc, frame, root_canvas, queued, ret, call, frames,
                   calls, editor, producer>>

\* the end of the block (line 287): the guard is dropped, the four values are
\* the frame's render_info, default_style, cursor and guifont_setting
unlock_editor ==
    /\ pc = "locked"
    /\ Len(snapshot) = Len(SnapshotFields)
    /\ editor' = [editor EXCEPT !.locked_by = "nobody"]
    /\ frame' = [frame EXCEPT !.default_style = Some(snapshot[2].value),
                              !.closed_window_ids = snapshot[1].closed_window_ids,
                              !.guifont_setting = snapshot[4].value]
    /\ pc' = "snapshot"
    /\ UNCHANGED <<rendered_windows, paint, shaper, font_width, font_height,
                   window_regions, root_canvas, queued, ret, call, frames, calls,
                   producer, snapshot>>

\* gpu_canvas.clear(default background) (line 289)
clear_root ==
    /\ pc = "snapshot"
    /\ root_canvas' = Append(root_canvas,
           RootOp("clear", frame.default_style[1].colors.background[1], 0,
                  <<F(0), F(0)>>, <<0, 0>>))
    /\ pc' = "cleared"
    /\ UNCHANGED <<rendered_windows, paint, shaper, font_width, font_height,
                   window_regions, frame, queued, ret, call, frames, calls,
                   editor, producer, snapshot>>

\* the font override (lines 291-293)
apply_guifont ==
    /\ pc = "cleared"
    /\ LET f == IF frame.guifont_setting = None
                THEN [updated |-> FALSE, self |-> Self]
                ELSE update_font(Self, frame.guifont_setting[1])
       IN /\ shaper' = f.self.shaper
          /\ font_width' = f.self.font_width
          /\ font_height' = f.self.font_height
          /\ frame' = [frame EXCEPT !.font_changed = f.updated]
    /\ pc' = "font"
    /\ UNCHANGED <<rendered_windows, paint, window_regions, root_canvas, queued, ret,
                   call, frames, calls, editor, producer, snapshot>>

\* the eviction of the closed windows (lines 295-297)
evict_closed_windows ==
    /\ pc = "font"
    /\ rendered_windows' = evict_closed(rendered_windows, frame.closed_window_ids)
    /\ pc' = "evicted"
    /\ UNCHANGED <<paint, shaper, font_width, font_height, window_regions, frame,
                   root_canvas, queued, ret, call, frames, calls, editor, producer,
                   snapshot>>

UseLogicalCoordinatesTwice ==
    /\ pc = "evicted"
    /\ root_canvas' = root_canvas \o << RootCall("use_logical_coordinates"),
                                        RootCall("use_logical_coordinates") >>
    /\ pc' = "windows"
    /\ UNCHANGED <<rendered_windows, paint, shaper, font_width, font_height,
                   window_regions, frame, queued, ret, call, frames, calls,
                   editor, producer, snapshot>>

\* coordinate_system_helper.use_logical_coordinates(gpu_canvas) (line 299)
use_logical_coordinates ==
    /\ pc = "evicted"
    /\ root_canvas' = Append(root_canvas, RootCall("use_logical_coordinates"))
    /\ pc' = "windows"
    /\ UNCHANGED <<rendered_windows, paint, shaper, font_width, font_height,
                   window_regions, frame, queued, ret, call, frames, calls,
                   editor, producer, snapshot>>

\* the next window of render_info.windows goes through draw_window
draw_next_window(alloc_fails) ==
    /\ Len(snapshot) = Len(SnapshotFields)
    /\ Len(frame.windows) < Len(snapshot[1].windows)
    /\ draw_window_step(snapshot[1].windows[Len(frame.windows) + 1], alloc_fails)

\* the iterator is exhausted: the regions are collected, the cursor is drawn
\* and draw returns
draw_return(dt) ==
    /\ Len(snapshot) = Len(SnapshotFields)
    /\ Len(frame.windows) = Len(snapshot[1].windows)
    /\ draw_end(dt)

NextSteps ==
    \/ \E content \in EditorContents : producer_lock(content)
    \/ producer_write
    \/ producer_unlock
    \/ draw_enter
    \/ queue_next_frame
    \/ lock_editor
    \/ read_editor
    \/ unlock_editor
    \/ clear_root
    \/ apply_guifont
    \/ evict_closed_windows
    \/ use_logical_coordinates
    \/ \E alloc_fails \in BOOLEAN : draw_next_window(alloc_fails)
    \/ \E dt \in DtValues : draw_return(dt)

SpecSteps == Init /\ [][NextSteps]_vars

(* ------------------------------- claims -------------------------------- *)
Keys == HashMapKeys(rendered_windows)
Cached(id) == (CHOOSE e \in rendered_windows : e.key = id).value
DeclaredIds == {w.grid_id : w \in Range(frame.windows)}
\* target position and target pixel size of a window under the current metrics
TargetOf(info) ==
    <<FMul(F(info.grid_position[1]), font_width),
      FMul(F(info.grid_position[2]), font_height)>>
PixelSizeOf(info) ==
    <<AsI32(FMul(F(info.width), font_width)), AsI32(FMul(F(info.height), font_height))>>
LastRegion == frame.collected[Len(frame.collected)][2]

\* C1: at every frame boundary the cache holds at most one RenderedWindow per
\* grid_id, and every window the frame processed has a cached surface whose
\* pixel dimensions are the target pixel size computed for it (the cell counts
\* times the font metrics, as whole pixels); after each draw_window call the
\* same holds of the window just processed.
C1_OnePerGridSizedToTarget ==
    /\ pc = "idle" =>
          /\ \A e1, e2 \in rendered_windows : e1.key = e2.key => e1 = e2
          /\ \A w \in Range(frame.windows) :
                /\ w.grid_id \in Keys
                /\ Cached(w.grid_id).surface.width = PixelSizeOf(w)[1]
                /\ Cached(w.grid_id).surface.height = PixelSizeOf(w)[2]
    /\ call # None =>
          /\ call[1].info.grid_id \in Keys
          /\ Cached(call[1].info.grid_id).surface.width = PixelSizeOf(call[1].info)[1]
          /\ Cached(call[1].info.grid_id).surface.height = PixelSizeOf(call[1].info)[2]

\* a frame that changed the font has rebuilt the surface of a live window
C1_Witness ==
    /\ pc = "idle"
    /\ call # None
    /\ frame.font_changed
    /\ call[1].rebuilt
    /\ ~call[1].created

\* C2: when draw_window processes a window with should_clear = true, the
\* smoothed position stored for it, the position it is composited at and the
\* corner of its published region all equal its target position.
C2_ClearSnapsToTarget ==
    (call # None /\ call[1].info.should_clear) =>
        /\ Cached(call[1].info.grid_id).current_position = TargetOf(call[1].info)
        /\ <<LastRegion.left, LastRegion.top>> = TargetOf(call[1].info)
        /\ \A i \in 1 .. Len(root_canvas) :
              (root_canvas[i].op = "surface"
               /\ root_canvas[i].grid_id = call[1].info.grid_id)
                  => root_canvas[i].at = TargetOf(call[1].info)

\* a window is cleared while its cached entry sits at another position
C2_Witness ==
    /\ call # None
    /\ call[1].info.should_clear
    /\ call[1].cached # None
    /\ call[1].cached[1].current_position[1] # TargetOf(call[1].info)[1]
    /\ call[1].cached[1].current_position[2] # TargetOf(call[1].info)[2]

\* the windows of the completed frame that were live when it started, were
\* not closed by it and were drawn with should_clear = false
SmoothedWindows ==
    {w \in Range(frame.windows) :
        /\ ~w.should_clear
        /\ w.grid_id \in HashMapKeys(frame.before.rendered_windows)
        /\ w.grid_id \notin frame.closed_window_ids}
PositionBefore(id) ==
    (CHOOSE e \in frame.before.rendered_windows : e.key = id).value.current_position

\* C3: for a live window drawn with should_clear = false a frame advances the
\* smoothed position once per axis by 0.4 of the distance to the target: the
\* distance to the target after the frame is exactly 0.6 of the distance
\* before it, and the position is not snapped to the target.
C3_SmoothingStep ==
    pc = "idle" =>
        \A w \in SmoothedWindows : \A axis \in 1 .. 2 :
            /\ FSub(Cached(w.grid_id).current_position[axis], TargetOf(w)[axis])
                  = FMul(Rat(3, 5), FSub(PositionBefore(w.grid_id)[axis], TargetOf(w)[axis]))
            /\ PositionBefore(w.grid_id)[axis] # TargetOf(w)[axis]
                  => Cached(w.grid_id).current_position[axis] # TargetOf(w)[axis]

\* a live window was away from its target on both axes when the frame began
C3_Witness ==
    /\ pc = "idle"
    /\ \E w \in SmoothedWindows :
          /\ PositionBefore(w.grid_id)[1] # TargetOf(w)[1]
          /\ PositionBefore(w.grid_id)[2] # TargetOf(w)[2]

\* C4 as stated: a grid_id in a frame's closed_window_ids has no entry in the
\* cache after that frame.
C4_ClosedAbsent ==
    pc = "idle" => \A id \in frame.closed_window_ids : id \notin Keys

\* C4: after a frame, a grid_id that the frame closed, or that had no entry
\* when the frame began, has an entry only if that frame declares it in its
\* windows list.
C4_ClosedAbsentUnlessDeclared ==
    pc = "idle" =>
        \A id \in Keys :
            (id \in frame.closed_window_ids
             \/ id \notin HashMapKeys(frame.before.rendered_windows))
                => id \in DeclaredIds

\* a frame closed a cached window it did not declare
C4_Witness ==
    /\ pc = "idle"
    /\ \E id \in frame.closed_window_ids :
          /\ id \in HashMapKeys(frame.before.rendered_windows)
          /\ id \notin DeclaredIds
          /\ id \notin Keys

\* the default background of the frame in progress
DefaultBackground == frame.default_style[1].colors.background[1]
\* the surface a resize replaced and its replacement before the repaint
OldSurface == call[1].found[1].surface
Replacement == call[1].before_repaint[1].surface
ResizedLive == call # None /\ call[1].rebuilt /\ ~call[1].created

\* C5: when a live window (should_clear = false) is drawn with a target pixel
\* size other than its cached surface's size, the replacement surface before
\* the repaint has the target size, holds the old surface's pixel at every
\* pixel both surfaces have (same coordinates from the origin) and the default
\* background at every other pixel.
C5_ResizeKeepsOverlap ==
    ResizedLive =>
        /\ <<Replacement.width, Replacement.height>> = call[1].image
        /\ \A p \in Pixels(Replacement.width, Replacement.height) :
              Replacement.pixels[p] =
                  IF p \in Pixels(OldSurface.width, OldSurface.height)
                  THEN OldSurface.pixels[p]
                  ELSE DefaultBackground

\* a grown surface keeps a pixel that is not of the default background
C5_Witness ==
    /\ ResizedLive
    /\ \E p \in Pixels(OldSurface.width, OldSurface.height) :
          /\ p \in Pixels(Replacement.width, Replacement.height)
          /\ OldSurface.pixels[p] # DefaultBackground
    /\ \E p \in Pixels(Replacement.width, Replacement.height) :
          p \notin Pixels(OldSurface.width, OldSurface.height)

\* C6: a resize of a live window keeps the entry under its grid_id and its
\* smoothing state: the stored position is the previous smoothed position
\* advanced by 0.4 of the distance to the target, and is not reset to the
\* target.
C6_ResizeKeepsSmoothing ==
    ResizedLive =>
        /\ call[1].info.grid_id \in Keys
        /\ \A axis \in 1 .. 2 :
              LET before == call[1].found[1].current_position[axis]
                  target == TargetOf(call[1].info)[axis]
                  after == Cached(call[1].info.grid_id).current_position[axis]
              IN /\ after = FAdd(before, FMul(Rat(2, 5), FSub(target, before)))
                 /\ before # target => after # target

\* a live window is resized while it is away from its target on both axes
C6_Witness ==
    /\ ResizedLive
    /\ call[1].found[1].current_position[1] # TargetOf(call[1].info)[1]
    /\ call[1].found[1].current_position[2] # TargetOf(call[1].info)[2]

\* C7: after every completed frame window_regions has exactly one entry per
\* window of that frame's windows list, in declared order and carrying that
\* window's grid_id; a window the frame did not declare has no region.
C7_RegionsAreThisFrames ==
    (pc = "idle" /\ frames > 0) =>
        [i \in 1 .. Len(window_regions) |-> window_regions[i][1]]
            = [i \in 1 .. Len(frame.windows) |-> frame.windows[i].grid_id]

\* a frame that declares a window drops the region of one it does not declare
C7_Witness ==
    /\ pc = "idle"
    /\ Len(window_regions) > 0
    /\ \E i \in 1 .. Len(frame.before.window_regions) :
          frame.before.window_regions[i][1] \notin DeclaredIds

\* the region's corner is the stored smoothed position, where the surface is
\* composited, and its extent is the stored surface's
RegionMatchesStoredWindow ==
    /\ <<LastRegion.left, LastRegion.top>>
          = Cached(call[1].info.grid_id).current_position
    /\ FSub(LastRegion.right, LastRegion.left)
          = F(Cached(call[1].info.grid_id).surface.width)
    /\ FSub(LastRegion.bottom, LastRegion.top)
          = F(Cached(call[1].info.grid_id).surface.height)
    /\ \E i \in 1 .. Len(root_canvas) :
          /\ root_canvas[i].op = "surface"
          /\ root_canvas[i].grid_id = call[1].info.grid_id
          /\ root_canvas[i].at = <<LastRegion.left, LastRegion.top>>
CreatedAtOrigin ==
    call # None /\ call[1].created /\ call[1].info.grid_position = <<0, 0>>

\* C8 as stated: the published region has its corner at the smoothed position
\* and the extent of the stored surface, and for a window created at grid
\* position (0,0) it is rect(0, 0, width*fw, height*fh).
C8_RegionIsCellsTimesFont ==
    /\ call # None => RegionMatchesStoredWindow
    /\ CreatedAtOrigin =>
          LastRegion = Rect(F(0), F(0),
                            FMul(F(call[1].info.width), font_width),
                            FMul(F(call[1].info.height), font_height))

\* C8: the published region has its corner at the smoothed position after the
\* smoothing step (where the surface is composited) and the extent of the
\* stored surface; for a window created at grid position (0,0) it is
\* rect(0, 0, width*fw, height*fh) with both products truncated to whole pixels.
C8_RegionIsStoredWindow ==
    /\ call # None => RegionMatchesStoredWindow
    /\ CreatedAtOrigin =>
          LastRegion = Rect(F(0), F(0),
                            F(AsI32(FMul(F(call[1].info.width), font_width))),
                            F(AsI32(FMul(F(call[1].info.height), font_height))))

\* a window is created at the origin with a width that is no whole number of
\* pixels
C8_Witness ==
    /\ CreatedAtOrigin
    /\ FMul(F(call[1].info.width), font_width)
          # F(AsI32(FMul(F(call[1].info.width), font_width)))

\* C9: draw returns true exactly when the snapshot carries a font override and
\* applying it changed the font; when it returns false, font_width and
\* font_height are as before the frame.
C9_FontChangedReturned ==
    (pc = "idle" /\ ret # None) =>
        /\ ret[1] = (/\ frame.guifont_setting # None
                     /\ frame.guifont_setting[1] # frame.before.options)
        /\ ~ret[1] => <<font_width, font_height>> = frame.before.font

\* a frame whose override is the font already in use returns false
C9_Witness ==
    /\ pc = "idle"
    /\ ret = Some(FALSE)
    /\ frame.guifont_setting = Some(frame.before.options)

\* the draw calls the last draw_window call issued for its i-th command
OpsOf(i, kind) ==
    {j \in 1 .. Len(call[1].ops) :
        call[1].ops[j].cmd = i /\ call[1].ops[j].op = kind}
\* the commands of the last draw_window call that carry no style
Unstyled ==
    {i \in 1 .. Len(call[1].info.draw_commands) :
        call[1].info.draw_commands[i].style = None}
\* both passes draw command i with the default style's colors
DefaultColorsUsed(i) ==
    /\ Cardinality(OpsOf(i, "rect")) = 1
    /\ \A j \in OpsOf(i, "rect") :
          call[1].ops[j].paint.color = call[1].default_style.colors.background[1]
    /\ \A j \in OpsOf(i, "text") :
          call[1].ops[j].paint.color = call[1].default_style.colors.foreground[1]
    /\ \A j \in OpsOf(i, "line") :
          call[1].ops[j].paint.color = call[1].default_style.colors.special[1]

\* C10 as stated: a command without a style is drawn in both passes with the
\* default style's background, foreground and special colors and with no
\* decoration: no underline, undercurl or strikethrough line, glyphs neither
\* bold nor italic.
C10_UnstyledUndecorated ==
    call # None =>
        \A i \in Unstyled :
            /\ DefaultColorsUsed(i)
            /\ OpsOf(i, "line") = {}
            /\ \A j \in OpsOf(i, "text") :
                  /\ ~call[1].ops[j].blob[1].bold
                  /\ ~call[1].ops[j].blob[1].italic

\* C10: a command without a style is drawn in both passes with the default
\* style's background, foreground and special colors and with the default
\* style's own decoration flags (none when the default style has none); the
\* draw_window call completes.
C10_UnstyledAsDefaultStyle ==
    call # None =>
        \A i \in Unstyled :
            /\ DefaultColorsUsed(i)
            /\ Cardinality(OpsOf(i, "line")) =
                  (IF call[1].default_style.underline \/ call[1].default_style.undercurl
                   THEN 1 ELSE 0)
                  + (IF call[1].default_style.strikethrough THEN 1 ELSE 0)
            /\ (call[1].default_style.underline \/ call[1].default_style.undercurl) =>
                  \E j \in OpsOf(i, "line") :
                      /\ \A k \in OpsOf(i, "line") : j <= k
                      /\ (call[1].ops[j].paint.path_effect # None)
                            = call[1].default_style.undercurl
            /\ \A j \in OpsOf(i, "text") :
                  /\ call[1].ops[j].blob[1].bold = call[1].default_style.bold
                  /\ call[1].ops[j].blob[1].italic = call[1].default_style.italic

\* a command without a style is drawn, glyphs included, under a default style
\* that carries decoration flags
C10_Witness ==
    /\ call # None
    /\ call[1].default_style.underline
    /\ call[1].default_style.bold
    /\ \E i \in Unstyled : OpsOf(i, "text") # {} /\ OpsOf(i, "line") # {}

\* nothing of the frame in progress has touched the root target, the font or
\* the window cache
NothingDoneYet ==
    /\ root_canvas = <<>>
    /\ call = None
    /\ rendered_windows = frame.before.rendered_windows
    /\ shaper.options = frame.before.options
    /\ <<font_width, font_height>> = frame.before.font

\* C11: every call of draw asks the scheduler for another frame exactly once:
\* from its first step on the scheduler has received one request per call of
\* draw, whatever the snapshot holds; when the request is made the call has
\* neither read the editor nor drawn or changed anything.
C11_QueuedOncePerDraw ==
    /\ queued = (IF pc = "entered" THEN frames - 1 ELSE frames)
    /\ pc \in {"entered", "queued"} =>
          /\ snapshot = <<>>
          /\ editor.locked_by # "renderer"
          /\ NothingDoneYet

\* a second frame completes whose snapshot declares no window and carries no
\* font override
C11_Witness ==
    /\ pc = "idle"
    /\ frames = 2
    /\ queued = 2
    /\ Len(snapshot) = Len(SnapshotFields)
    /\ snapshot[1].windows = <<>>
    /\ snapshot[4].value = None
    /\ ~frame.font_changed

\* C12: the values the render thread has read from the editor are all of one
\* editor state; while the render thread holds the editor lock it has drawn
\* nothing and changed neither the cache nor the font, and once the frame
\* clears, evicts or draws the lock is not held by the render thread.
C12_SnapshotFromOneState ==
    /\ \A i, j \in 1 .. Len(snapshot) : snapshot[i].version = snapshot[j].version
    /\ editor.locked_by = "renderer" => (pc = "locked" /\ NothingDoneYet)
    /\ pc \in {"snapshot", "cleared", "font", "evicted", "windows", "panicked"} =>
          editor.locked_by # "renderer"

\* the producer is in the middle of its second update while the render thread
\* draws the windows of the first
C12_Witness ==
    /\ pc = "windows"
    /\ call # None
    /\ snapshot[1].version = 1
    /\ editor.locked_by = "producer"
    /\ producer.written \in 1 .. 3
    /\ editor.state.render_info.version = 2
    /\ editor.state.guifont.version = 1

\* the draw commands of the last draw_window call and the style each is drawn with
Commands == call[1].info.draw_commands
StyleOf(i) == ResolveStyle(Commands[i].style, call[1].default_style)

\* C13 as stated: no clip or paint state set for one command is in force for
\* a later one: every foreground draw of a command is clipped to that
\* command's own region, and every line of a command whose style has no
\* undercurl (its underline, its strikethrough) is solid, whatever commands
\* were drawn before it.
C13_NoLeakAcrossCommands ==
    call # None =>
        \A i \in 1 .. Len(Commands) :
            /\ \A j \in OpsOf(i, "line") \cup OpsOf(i, "text") :
                  call[1].ops[j].clip =
                      Some(compute_text_region(call[1].font[1], call[1].font[2],
                                               Commands[i].grid_position,
                                               Commands[i].cell_width))
            /\ ~StyleOf(i).undercurl =>
                  \A j \in OpsOf(i, "line") : call[1].ops[j].paint.path_effect = None

\* C14: in one draw_window call the draw calls on the window's surface are
\* first one background fill per command, in submission order, and then the
\* foreground draws, in submission order: no fill comes after a foreground
\* draw.
C14_BackgroundsBeforeForegrounds ==
    call # None =>
        /\ \A i \in 1 .. Len(Commands) :
              call[1].ops[i].op = "rect" /\ call[1].ops[i].cmd = i
        /\ \A j \in Len(Commands) + 1 .. Len(call[1].ops) :
              /\ call[1].ops[j].op # "rect"
              /\ \A k \in j .. Len(call[1].ops) : call[1].ops[j].cmd <= call[1].ops[k].cmd

\* three commands are drawn, the first with glyphs that the fills of the
\* later ones would follow in an interleaved order
C14_Witness ==
    /\ call # None
    /\ Len(Commands) = 3
    /\ OpsOf(1, "text") # {}
    /\ OpsOf(2, "text") # {}
    /\ OpsOf(3, "rect") # {}

\* positions of the draw calls of one kind on the root target, and the
\* composites of window surfaces in the order they were made
OpsAt(kind) == {i \in 1 .. Len(root_canvas) : root_canvas[i].op = kind}
SurfaceOps == SelectSeq(root_canvas, LAMBDA o : o.op = "surface")
RootCleared ==
    root_canvas = << RootOp("clear", DefaultBackground, 0, <<F(0), F(0)>>, <<0, 0>>) >>
FontPending ==
    /\ shaper.options = frame.before.options
    /\ <<font_width, font_height>> = frame.before.font
    /\ ~frame.font_changed
FontApplied ==
    /\ shaper.options = (IF frame.guifont_setting # None
                         THEN frame.guifont_setting[1] ELSE frame.before.options)
    /\ frame.font_changed = (/\ frame.guifont_setting # None
                             /\ frame.guifont_setting[1] # frame.before.options)
CacheAsBefore == rendered_windows = frame.before.rendered_windows
CacheEvicted ==
    rendered_windows =
        {e \in frame.before.rendered_windows : e.key \notin frame.closed_window_ids}

\* C15: the steps of a frame take effect in this order: the clear of the root
\* target to the default background, the font override, the eviction of the
\* closed grids, the coordinate transform (once), the composites of the
\* windows in declared order, and the cursor last, after every window.
C15_FrameStepOrder ==
    /\ pc \in {"entered", "queued", "locked", "snapshot"} =>
          root_canvas = <<>> /\ FontPending /\ CacheAsBefore
    /\ pc = "cleared" => RootCleared /\ FontPending /\ CacheAsBefore
    /\ pc = "font" => RootCleared /\ FontApplied /\ CacheAsBefore
    /\ pc = "evicted" => RootCleared /\ FontApplied /\ CacheEvicted
    /\ (pc \in {"windows", "panicked"} \/ (pc = "idle" /\ frames > 0)) =>
          /\ OpsAt("clear") = {1}
          /\ OpsAt("use_logical_coordinates") = {2}
          /\ FontApplied
          /\ Len(SurfaceOps) = Len(frame.collected)
          /\ \A i \in 1 .. Len(SurfaceOps) :
                /\ SurfaceOps[i].grid_id = snapshot[1].windows[i].grid_id
                /\ frame.collected[i][1] = snapshot[1].windows[i].grid_id
          /\ OpsAt("cursor") = (IF pc = "idle" THEN {Len(root_canvas)} ELSE {})
          /\ pc = "idle" => Len(SurfaceOps) = Len(snapshot[1].windows)

\* a frame that changes the font, closes a grid and declares two windows has
\* drawn its cursor
C15_Witness ==
    /\ pc = "idle"
    /\ frame.font_changed
    /\ frame.closed_window_ids # {}
    /\ Len(SurfaceOps) = 2
    /\ SurfaceOps[1].grid_id # SurfaceOps[2].grid_id
    /\ root_canvas[Len(root_canvas)].op = "cursor"

\* the font metrics Renderer::update_font takes from the font now in use
NewMetrics ==
    <<font_base_dimensions(shaper.options)[1],
      Ceil(font_base_dimensions(shaper.options)[2])>>
SizeUnder(metrics, info) ==
    <<AsI32(FMul(F(info.width), metrics[1])), AsI32(FMul(F(info.height), metrics[2]))>>
PositionUnder(metrics, info) ==
    <<FMul(F(info.grid_position[1]), metrics[1]),
      FMul(F(info.grid_position[2]), metrics[2])>>

\* C16: in a frame whose font override changed the font, every window the
\* frame has drawn has a cached surface and a published region of the pixel
\* size computed from the new metrics, and the last draw_window call computed
\* its target position and target size from the new metrics.
C16_FontChangeResizesSameFrame ==
    frame.font_changed =>
        /\ \A i \in 1 .. Len(frame.collected) :
              /\ frame.windows[i].grid_id \in Keys
              /\ <<Cached(frame.windows[i].grid_id).surface.width,
                    Cached(frame.windows[i].grid_id).surface.height>>
                    = SizeUnder(NewMetrics, frame.windows[i])
              /\ FSub(frame.collected[i][2].right, frame.collected[i][2].left)
                    = F(SizeUnder(NewMetrics, frame.windows[i])[1])
              /\ FSub(frame.collected[i][2].bottom, frame.collected[i][2].top)
                    = F(SizeUnder(NewMetrics, frame.windows[i])[2])
        /\ call # None =>
              /\ call[1].target = PositionUnder(NewMetrics, call[1].info)
              /\ call[1].image = SizeUnder(NewMetrics, call[1].info)

\* a frame changed the metrics and rebuilt in that frame the surface of a
\* live window whose size under the old metrics differs
C16_Witness ==
    /\ pc = "idle"
    /\ frame.font_changed
    /\ frame.before.font # <<font_width, font_height>>
    /\ ResizedLive
    /\ SizeUnder(frame.before.font, call[1].info) # SizeUnder(NewMetrics, call[1].info)
    /\ <<OldSurface.width, OldSurface.height>> = SizeUnder(frame.before.font, call[1].info)
    /\ window_regions # <<>>

\* C17: a draw_window call whose surface allocation fails ends the frame: the
\* step that fails publishes no region, draws no cursor, leaves window_regions
\* as it was before the frame and returns nothing; and no step follows it (no
\* later window, no cursor, no return).
C17_AllocationFailureEndsFrame ==
    [][/\ pc # "panicked"
       /\ pc' = "panicked" =>
             /\ window_regions' = frame'.before.window_regions
             /\ frame'.collected = frame.collected
             /\ root_canvas' = root_canvas
             /\ ret' = ret]_vars

\* the allocation fails in a frame that follows one which published a region
C17_Witness ==
    /\ pc = "panicked"
    /\ frame.before.window_regions # <<>>
    /\ window_regions = frame.before.window_regions
    /\ frame.collected = <<>>
    /\ Len(frame.windows) = 1

\* C18: a grid_id that the frame so far has neither drawn nor closed has the
\* cache entry (surface and smoothed position) it had before the frame, or
\* none if it had none; and after a completed frame every entry that is gone
\* was named in the frame's closed_window_ids.
C18_UnnamedEntriesUntouched ==
    /\ \A id \in GridIds \ (DeclaredIds \cup frame.closed_window_ids) :
          HashMapGet(rendered_windows, id) = HashMapGet(frame.before.rendered_windows, id)
    /\ pc = "idle" =>
          \A id \in HashMapKeys(frame.before.rendered_windows) \ Keys :
              id \in frame.closed_window_ids

\* a frame closes a grid and draws a window while another cached grid is
\* not named by it
C18_Witness ==
    /\ pc = "idle"
    /\ frame.closed_window_ids # {}
    /\ DeclaredIds # {}
    /\ \E id \in Keys : id \notin DeclaredIds \cup frame.closed_window_ids

\* the last draw_window call drew a grid that its frame closed
ClosedAndDeclared == call # None /\ call[1].info.grid_id \in frame.closed_window_ids

\* C19: a window whose grid_id is also in the frame's closed_window_ids is
\* drawn as a first appearance whatever should_clear says: no cached entry is
\* reused, the surface before the repaint is a fresh one of the target size
\* cleared to the default background, the stored position is the target
\* position, and the grid_id is in the cache after the call.
C19_ClosedThenDeclaredIsFresh ==
    ClosedAndDeclared =>
        /\ call[1].found = None
        /\ call[1].created
        /\ ~call[1].rebuilt
        /\ Replacement = build_window_surface(call[1].default_style,
                                              PixelSizeOf(call[1].info))
        /\ call[1].info.grid_id \in Keys
        /\ Cached(call[1].info.grid_id).current_position = TargetOf(call[1].info)

\* a grid cached away from its target and at another size is closed and
\* declared with should_clear = false in one frame
C19_Witness ==
    /\ ClosedAndDeclared
    /\ ~call[1].info.should_clear
    /\ call[1].info.grid_id \in HashMapKeys(frame.before.rendered_windows)
    /\ PositionBefore(call[1].info.grid_id) # TargetOf(call[1].info)
    /\ (CHOOSE e \in frame.before.rendered_windows :
            e.key = call[1].info.grid_id).value.surface.width # call[1].image[1]

\* C20: a draw_window call allocates one surface when it creates the window
\* (no entry, or should_clear) or when the reused surface's size differs from
\* the target size, and none when a reused surface matches; a created surface
\* is never rebuilt in the same call.
C20_AtMostOneAllocation ==
    call # None =>
        /\ call[1].created = (call[1].info.should_clear \/ call[1].cached = None)
        /\ call[1].allocations =
              (IF call[1].created THEN 1
               ELSE IF <<call[1].found[1].surface.width, call[1].found[1].surface.height>>
                          # PixelSizeOf(call[1].info)
                    THEN 1 ELSE 0)
        /\ call[1].created => ~call[1].rebuilt

\* should_clear creates a window whose cached surface had another size
C20_Witness ==
    /\ call # None
    /\ call[1].info.should_clear
    /\ call[1].cached # None
    /\ <<call[1].cached[1].surface.width, call[1].cached[1].surface.height>>
          # call[1].image
    /\ call[1].allocations = 1

====
